---- MODULE Spec2Model ----
(***************************************************************************)
(* Model of the terminal transport client (class Xterm) of aiTerminal:     *)
(* flow control between the socket and the emulator, the web-mouse-mode    *)
(* override, the preference merge, renderer selection and the connection   *)
(* lifecycle.  The emulator (xterm.js) is an external collaborator: it is  *)
(* modelled as a FIFO write buffer whose entries are parsed in order and   *)
(* whose write callbacks run right after the entry they belong to.         *)
(***************************************************************************)
EXTENDS Integers, Sequences, FiniteSets, TLC

\* ------------------------------------------------------------------ bounds
\* longest OUTPUT payload, in bytes
MaxChunk == 2
\* most writes the emulator's write buffer holds before it parses one
MaxQueue == 2
\* number of OUTPUT frames that arrive in one behaviour (their arrival ids)
MaxFrames == 4
\* largest flow-control threshold `limit` the caller configures
MaxLimit == 2
\* largest highWater / lowWater the caller configures
MaxWater == 2
\* most settle-delay timers outstanding at once
MaxTimers == 1
\* the same where a socket may open before the timer of the one before it has run
MaxRacingTimers == 2
\* most parameters of the query string
MaxQuery == 1
\* largest number an option or a query parameter holds
MaxNumber == 99
\* most steady-state listener sets registered at once
MaxListenerSets == 2
\* most keys of a preference object drawn for the merge
MaxKeys == 2
\* most disposables registered in one behaviour that numbers them
MaxDisposables == 4
\* longest text or binary payload handed to the frame encoders, in characters
MaxText == 2

Max(a, b) == IF a >= b THEN a ELSE b

\* ------------------------------------------------------------- JS objects
\* A JavaScript object is the sequence of its <<key, value>> pairs in
\* property enumeration order; keys are unique.  Values are written as
\* strings: "true" and "false" stand for the booleans.
PrefKeys == {"rendererType", "enableSixel", "titleFixed"}
ValuesOf(k) ==
    CASE k = "rendererType" -> {"webgl", "canvas"}
      [] k = "enableSixel" -> {"true", "false"}
      [] OTHER -> {"", "pinned"}

Keys(o) == {o[i][1] : i \in DOMAIN o}
Has(o, k) == k \in Keys(o)
Get(o, k) == LET i == CHOOSE j \in DOMAIN o : o[j][1] = k IN o[i][2]
Truthy(v) == v \notin {"false", ""}

\* one property of a spread `{...o, [k]: v}`: an existing key keeps its place
\* and takes the new value, a new key is appended
SetPropKeepsOld(o, k, v) ==
    IF Has(o, k) THEN o ELSE Append(o, <<k, v>>)
SetProp(o, k, v) ==
    IF Has(o, k)
    THEN [i \in DOMAIN o |-> IF o[i][1] = k THEN <<k, v>> ELSE o[i]]
    ELSE Append(o, <<k, v>>)

\* `{...a, ...b}`
RECURSIVE Spread(_, _)
Spread(a, b) ==
    IF b = <<>> THEN a
    ELSE Spread(SetProp(a, Head(b)[1], Head(b)[2]), Tail(b))

\* onSocketData, SET_PREFERENCES: { ...clientOptions, ...server, ...query }
EffectivePreferences(defaults, server, query) ==
    Spread(Spread(defaults, server), query)

\* ------------------------------------------------------- the query string
\* A query string is the sequence of its <<key, value>> parameters, a value the
\* sequence of its characters.  Numbers are written in decimal, NaN as "NaN",
\* the empty object as "{}".
DigitChars == <<"0", "1", "2", "3", "4", "5", "6", "7", "8", "9">>
IsDigit(ch) == \E d \in DOMAIN DigitChars : DigitChars[d] = ch
digitOf(ch) == (CHOOSE d \in DOMAIN DigitChars : DigitChars[d] = ch) - 1

RECURSIVE join(_)
join(chars) == IF chars = <<>> THEN "" ELSE Head(chars) \o join(Tail(chars))

RECURSIVE toString(_)
toString(n) ==
    IF n < 10 THEN DigitChars[n + 1] ELSE toString(n \div 10) \o DigitChars[(n % 10) + 1]

\* `typeof v`; "undefined" for a key that is in neither object
typeOf(v) ==
    CASE v \in {"true", "false"} -> "boolean"
      [] v \in {toString(n) : n \in 0..MaxNumber} \cup {"NaN"} -> "number"
      [] v = "{}" -> "object"
      [] OTHER -> "string"

\* Number.parseInt(queryVal, 10): the leading digits, NaN without any
RECURSIVE leadingValue(_, _)
leadingValue(chars, n) ==
    IF chars # <<>> /\ IsDigit(Head(chars))
    THEN leadingValue(Tail(chars), n * 10 + digitOf(Head(chars)))
    ELSE n
parseInt(chars) ==
    IF chars # <<>> /\ IsDigit(Head(chars)) THEN toString(leadingValue(chars, 0)) ELSE "NaN"

\* JSON.parse(queryVal): of the values explored only "{}" is JSON for an object,
\* a number is JSON for itself, everything else throws
jsonParse(chars) ==
    IF join(chars) = "{}" THEN [threw |-> FALSE, value |-> "{}"]
    ELSE IF chars # <<>> /\ \A i \in DOMAIN chars : IsDigit(chars[i])
    THEN [threw |-> FALSE, value |-> parseInt(chars)]
    ELSE [threw |-> TRUE, value |-> ""]

\* parseOptsFromUrlQuery(query): `let v = clientOptions[k]; if (v === undefined)
\* v = terminal.options[k]; switch (typeof v)`
RECURSIVE parseOptsFromUrlQuery(_, _, _)
parseOptsFromUrlQuery(query, defaults, options) ==
    IF query = <<>> THEN [threw |-> FALSE, prefs |-> <<>>]
    ELSE LET rest == parseOptsFromUrlQuery(SubSeq(query, 1, Len(query) - 1), defaults, options)
             k == query[Len(query)][1]
             queryVal == query[Len(query)][2]
             t == IF Has(defaults, k) THEN typeOf(Get(defaults, k))
                  ELSE IF Has(options, k) THEN typeOf(Get(options, k))
                  ELSE "undefined" IN
         IF rest.threw THEN rest
         ELSE CASE t = "boolean" ->
                     [rest EXCEPT !.prefs = SetProp(@, k,
                         IF join(queryVal) \in {"true", "1"} THEN "true" ELSE "false")]
                [] t = "number" -> [rest EXCEPT !.prefs = SetProp(@, k, parseInt(queryVal))]
                [] t = "string" -> [rest EXCEPT !.prefs = SetProp(@, k, join(queryVal))]
                [] t = "object" ->
                     IF jsonParse(queryVal).threw THEN [rest EXCEPT !.threw = TRUE]
                     ELSE [rest EXCEPT !.prefs = SetProp(@, k, jsonParse(queryVal).value)]
                [] OTHER -> [rest EXCEPT !.prefs = SetProp(@, k, join(queryVal))]

\* the objects of at most n keys over PrefKeys
RECURSIVE Objects(_)
Objects(n) ==
    IF n = 0 THEN {<<>>}
    ELSE LET smaller == Objects(n - 1) IN
         smaller \cup
         {Append(o, <<k, v>>) : o \in {x \in smaller : Len(x) = n - 1},
                                 k \in PrefKeys, v \in {"true", "false", "webgl", "canvas", "", "pinned"}}

WellFormed(o) ==
    /\ \A i, j \in DOMAIN o : o[i][1] = o[j][1] => i = j
    /\ \A i \in DOMAIN o : o[i][2] \in ValuesOf(o[i][1])
PrefObjects == {o \in Objects(MaxKeys) : WellFormed(o)}


\* ------------------------------------------------------- renderer selection
\* A backend field is "unset" (undefined), "loaded" (instantiated and loaded into
\* the emulator) or, for WebGL, "lost" (disposed by the context-loss handler,
\* the field still holding it).  A call's `ops` lists what it did to the
\* backends; `threw` says that an exception left the call.  An instantiation
\* fails in the constructor ("ctor") or in terminal.loadAddon ("load").
FailureModes == {"ok", "ctor", "load"}
RendererTypes == {"dom", "canvas", "webgl"}

\* disposeCanvas: try { this.canvasAddon?.dispose() } catch {}; canvasAddon = undefined
disposeCanvasKeepsField(r) == r
disposeCanvas(r) ==
    [r EXCEPT !.canvasAddon = "unset",
              !.ops = IF r.canvasAddon = "unset" THEN @ ELSE Append(@, "dispose canvas")]

\* disposeWebgl: try { this.webglAddon?.dispose() } catch {}; webglAddon = undefined
disposeWebgl(r) ==
    [r EXCEPT !.webglAddon = "unset",
              !.ops = IF r.webglAddon = "unset" THEN @ ELSE Append(@, "dispose webgl")]

\* enableCanvas
enableCanvas(r, canvas) ==
    IF r.canvasAddon # "unset" THEN r
    ELSE IF canvas = "ctor" THEN [r EXCEPT !.threw = TRUE]
    ELSE LET made == disposeWebgl([r EXCEPT !.canvasAddon = "new",
                                            !.ops = Append(@, "new canvas")]) IN
         IF canvas = "load"
         THEN disposeCanvas(made)
         ELSE [made EXCEPT !.canvasAddon = "loaded"]

\* enableWebgl
enableWebglAlways(r, webgl, canvas) ==
    IF webgl = "ctor" THEN [r EXCEPT !.threw = TRUE]
    ELSE LET made == disposeCanvas([r EXCEPT !.webglAddon = "new",
                                             !.ops = Append(@, "new webgl")]) IN
         IF webgl = "load"
         THEN enableCanvas(disposeWebgl(made), canvas)
         ELSE [made EXCEPT !.webglAddon = "loaded"]
enableWebgl(r, webgl, canvas) ==
    IF r.webglAddon # "unset" THEN r
    ELSE IF webgl = "ctor" THEN [r EXCEPT !.threw = TRUE]
    ELSE LET made == disposeCanvas([r EXCEPT !.webglAddon = "new",
                                             !.ops = Append(@, "new webgl")]) IN
         IF webgl = "load"
         THEN enableCanvas(disposeWebgl(made), canvas)
         ELSE [made EXCEPT !.webglAddon = "loaded"]

\* setRendererType(value)
setRendererType(r, value, webgl, canvas) ==
    CASE value = "canvas" -> enableCanvas(r, canvas)
      [] value = "webgl" -> enableWebgl(r, webgl, canvas)
      [] value = "dom" -> disposeCanvas(disposeWebgl(r))
      [] OTHER -> r

\* ------------------------------------------------------- applyPreferences
\* The part of the client that applyPreferences changes, as a record `c`:
\*   r (the renderer fields), addons (capabilities loaded into the emulator),
\*   writeFunc, leaveAlert, resizeOverlay, reconnect, doReconnect,
\*   closeOnDisconnect, titleFixed, documentTitle, termOptions.

\* `case 'closeOnDisconnect': if (value) { ... }`
closesOnDisconnectKeepsReconnect(c) == [c EXCEPT !.closeOnDisconnect = TRUE]
closesOnDisconnect(c) ==
    [c EXCEPT !.closeOnDisconnect = TRUE, !.reconnect = FALSE, !.doReconnect = FALSE]

\* one iteration of `for (const [key, value] of Object.entries(prefs)) switch (key)`
applyKey(c, key, value, webgl, canvas) ==
    CASE key = "rendererType" ->
            [c EXCEPT !.r = setRendererType(c.r, value, webgl, canvas)]
      [] key = "disableLeaveAlert" ->
            IF Truthy(value) THEN [c EXCEPT !.leaveAlert = FALSE] ELSE c
      [] key = "disableResizeOverlay" ->
            IF Truthy(value) THEN [c EXCEPT !.resizeOverlay = FALSE] ELSE c
      [] key = "disableReconnect" ->
            IF Truthy(value) THEN [c EXCEPT !.reconnect = FALSE, !.doReconnect = FALSE] ELSE c
      [] key = "enableSixel" ->
            IF Truthy(value)
            THEN [c EXCEPT !.addons = @ \cup {"image"}, !.registers = @ + 1]
            ELSE c
      [] key = "closeOnDisconnect" ->
            IF Truthy(value) THEN closesOnDisconnect(c) ELSE c
      [] key = "titleFixed" ->
            [c EXCEPT !.titleFixed = value, !.documentTitle = value]
      [] key = "unicodeVersion" ->
            IF value = "11" THEN [c EXCEPT !.addons = @ \cup {"unicode11"}] ELSE c
      [] OTHER ->
            [c EXCEPT !.termOptions = SetProp(@, key, value)]

\* the loop of applyPreferences: `case 'titleFixed': if (!value) return;` leaves
\* the function, and so does an exception thrown by a handler
RECURSIVE applyEntries(_, _, _, _)
applyEntries(c, entries, webgl, canvas) ==
    IF entries = <<>> \/ c.r.threw THEN c
    ELSE LET key == Head(entries)[1]
             value == Head(entries)[2] IN
         IF key = "titleFixed" /\ ~Truthy(value) THEN c
         ELSE applyEntries(applyKey(c, key, value, webgl, canvas), Tail(entries),
                           webgl, canvas)

\* `if (prefs.enableZmodem || prefs.enableTrzsz)`: the file-transfer addon is
\* loaded and writeFunc is routed through its consume
loadsZmodem(prefs) ==
    \/ Has(prefs, "enableZmodem") /\ Truthy(Get(prefs, "enableZmodem"))
    \/ Has(prefs, "enableTrzsz") /\ Truthy(Get(prefs, "enableTrzsz"))

\* applyPreferences(prefs)
applyPreferences(c, prefs, webgl, canvas) ==
    applyEntries(IF loadsZmodem(prefs)
                 THEN [c EXCEPT !.addons = @ \cup {"zmodem"}, !.writeFunc = "consume",
                                !.registers = @ + 1]
                 ELSE c,
                 prefs, webgl, canvas)

\* ------------------------------------------------------------ frame codec
\* Text is a sequence of code points of the basic plane (one UTF-16 unit each,
\* so data.length is Len), bytes are numbers 0..255.
\* 'a' (1 byte in UTF-8), e-acute (2 bytes), the euro sign (3 bytes)
Chars == {97, 233, 8364}
RECURSIVE SeqsUpTo(_, _)
SeqsUpTo(S, n) ==
    IF n = 0 THEN {<<>>}
    ELSE SeqsUpTo(S, n - 1) \cup {Append(t, c) : t \in SeqsUpTo(S, n - 1), c \in S}
Texts == SeqsUpTo(Chars, MaxText)
\* binary data: NUL, ESC and a byte that is not valid UTF-8
BinaryData == SeqsUpTo({0, 27, 255}, MaxText)
\* the terminal sizes the emulator reports
Sizes == {1, 24, 80}

\* Command.INPUT, RESIZE_TERMINAL, PAUSE, RESUME: '0' '1' '2' '3'
CommandInput == <<48>>
CommandResize == <<49>>
CommandPause == <<50>>
CommandResume == <<51>>
\* the sidebar commands of the component: '4' (refresh), '5' (select)
SidebarCommands == {<<52>>, <<53>>}

\* the UTF-8 encoding of one code point
utf8(c) ==
    IF c < 128 THEN <<c>>
    ELSE IF c < 2048 THEN <<192 + (c \div 64), 128 + (c % 64)>>
    ELSE <<224 + (c \div 4096), 128 + ((c \div 64) % 64), 128 + (c % 64)>>

\* TextEncoder.encode(text)
RECURSIVE textEncode(_)
textEncode(text) ==
    IF text = <<>> THEN <<>> ELSE utf8(Head(text)) \o textEncode(Tail(text))

\* TextEncoder.encodeInto(text, dest): the bytes written into a destination of
\* `room` bytes; a character is written whole or not at all
RECURSIVE encodeInto(_, _)
encodeInto(text, room) ==
    IF text = <<>> \/ Len(utf8(Head(text))) > room THEN <<>>
    ELSE utf8(Head(text)) \o encodeInto(Tail(text), room - Len(utf8(Head(text))))

\* new Uint8Array(n): n zero bytes
Zeros(n) == [i \in 1..n |-> 0]

\* sendData(data) with a string: a buffer of data.length * 3 + 1 bytes, the tag,
\* encodeInto behind it, and the subarray up to stats.written + 1 is sent
sendDataTextTight(data) == CommandInput \o encodeInto(data, Len(data))
sendDataText(data) == CommandInput \o encodeInto(data, Len(data) * 3)

\* sendData(data) with a Uint8Array: the tag and the bytes
sendDataBinary(data) == CommandInput \o data

\* sendCommand(cmd, data): a buffer of data.length + 1 bytes, the tag, encodeInto
\* behind it, and the whole buffer is sent; without data the tag alone
sendCommand(cmd, data) ==
    IF data = <<>> THEN cmd
    ELSE LET bytes == encodeInto(data, Len(data))
         IN cmd \o bytes \o Zeros(Len(data) - Len(bytes))

\* the decimal digits of a natural number, as JSON.stringify prints it
RECURSIVE Digits(_)
Digits(n) == IF n < 10 THEN <<48 + n>> ELSE Digits(n \div 10) \o <<48 + (n % 10)>>

\* {"columns":  ,"rows":  }
JsonColumns == <<123, 34, 99, 111, 108, 117, 109, 110, 115, 34, 58>>
JsonRows == <<44, 34, 114, 111, 119, 115, 34, 58>>
JsonEnd == <<125>>

\* JSON.stringify({ columns: cols, rows: rows })
stringifySize(cols, rows) ==
    JsonColumns \o Digits(cols) \o JsonRows \o Digits(rows) \o JsonEnd

\* the onResize listener's frame: textEncoder.encode(RESIZE_TERMINAL + msg)
resizeFrame(cols, rows) == textEncode(CommandResize \o stringifySize(cols, rows))

IsContinuation(b) == b >= 128 /\ b < 192

\* TextDecoder.decode(bytes): UTF-8, U+FFFD for a byte that fits no sequence
RECURSIVE textDecode(_)
textDecode(bytes) ==
    IF bytes = <<>> THEN <<>>
    ELSE LET b == Head(bytes) IN
         IF b < 128 THEN <<b>> \o textDecode(Tail(bytes))
         ELSE IF /\ b >= 194 /\ b < 224 /\ Len(bytes) >= 2 /\ IsContinuation(bytes[2])
         THEN <<(b - 192) * 64 + (bytes[2] - 128)>> \o textDecode(SubSeq(bytes, 3, Len(bytes)))
         ELSE IF /\ b >= 224 /\ b < 240 /\ Len(bytes) >= 3
                 /\ IsContinuation(bytes[2]) /\ IsContinuation(bytes[3])
                 /\ (b - 224) * 4096 + (bytes[2] - 128) * 64 >= 2048
         THEN <<(b - 224) * 4096 + (bytes[2] - 128) * 64 + (bytes[3] - 128)>>
                  \o textDecode(SubSeq(bytes, 4, Len(bytes)))
         ELSE <<65533>> \o textDecode(Tail(bytes))

\* the frame decoding of onSocketData: the first byte is the command, the
\* rest the payload
frameCommand(frame) == <<frame[1]>>
framePayload(frame) == SubSeq(frame, 2, Len(frame))

\* the number a run of leading decimal digits stands for, and what follows it
RECURSIVE LeadingDigits(_)
LeadingDigits(text) ==
    IF text # <<>> /\ Head(text) >= 48 /\ Head(text) <= 57
    THEN <<Head(text)>> \o LeadingDigits(Tail(text))
    ELSE <<>>
RECURSIVE NumberOf(_)
NumberOf(digits) ==
    IF digits = <<>> THEN 0
    ELSE NumberOf(SubSeq(digits, 1, Len(digits) - 1)) * 10 + (digits[Len(digits)] - 48)
StartsWith(text, prefix) ==
    Len(text) >= Len(prefix) /\ SubSeq(text, 1, Len(prefix)) = prefix
Drop(text, n) == SubSeq(text, n + 1, Len(text))

\* JSON.parse of a { columns, rows } message; columns 0 and rows 0 stand for a
\* text that is no such message
parseSize(text) ==
    IF ~StartsWith(text, JsonColumns) THEN [columns |-> 0, rows |-> 0]
    ELSE LET t1 == Drop(text, Len(JsonColumns))
             c == LeadingDigits(t1)
             t2 == Drop(t1, Len(c))
         IN IF c = <<>> \/ ~StartsWith(t2, JsonRows) THEN [columns |-> 0, rows |-> 0]
            ELSE LET t3 == Drop(t2, Len(JsonRows))
                     r == LeadingDigits(t3)
                 IN IF r = <<>> \/ Drop(t3, Len(r)) # JsonEnd
                    THEN [columns |-> 0, rows |-> 0]
                    ELSE [columns |-> NumberOf(c), rows |-> NumberOf(r)]

\* ------------------------------------------------------------------ state
MouseModes == {1000, 1002, 1003, 1006}

VARIABLES
    flowControl,     \* options.flowControl: [limit, highWater, lowWater]
    written,         \* this.written
    pending,         \* this.pending
    writeBuffer,     \* the emulator's queue of terminal.write calls not yet parsed
    nextId,          \* arrival number of the next OUTPUT frame; 0: frames are not numbered
    lastRendered,    \* arrival number of the last OUTPUT frame the emulator parsed
    mouseModes,      \* the emulator's enabled mouse-reporting modes
    webMouseMode,    \* this.webMouseMode
    socket,          \* readyState of this.socket, "none" while it is undefined
    socketListeners, \* the open/message/close listeners of this.socket are registered
    settleTimers,    \* setTimeout callbacks of onSocketOpen not yet run
    handshakes,      \* handshake frames that this.socket has accepted
    opened,          \* this.opened
    reconnect,       \* this.reconnect
    doReconnect,     \* this.doReconnect
    closeOnDisconnect, \* this.closeOnDisconnect
    listenerSets,    \* steady-state listener sets registered by initListeners
    refreshing,      \* a refreshToken().then(connect) is in flight
    keyPrompt,       \* the "Press Enter to Reconnect" key handler is installed
    tabClosed,       \* window.close() was called
    unmounted,       \* the component has run componentWillUnmount
    disposables,     \* this.disposables, a number for each registration
    releases,        \* the registrations whose dispose() has been called, in call order
    nextDisposable,  \* number of the next registration; 0: they are not numbered
    canvasAddon,     \* this.canvasAddon
    webglAddon,      \* this.webglAddon
    rendererCall,    \* the last direct setRendererType call: request, failures, state before, ops
    addons,          \* capabilities loaded into the emulator: zmodem, image, unicode11
    writeFunc,       \* this.writeFunc: "writeData" or the file-transfer addon's "consume"
    leaveAlert,      \* the beforeunload confirmation may still be registered
    resizeOverlay,   \* this.resizeOverlay
    titleFixed,      \* this.titleFixed, "" while undefined
    title,           \* this.title, "" while undefined
    documentTitle,   \* document.title
    termOptions,     \* the emulator options set by preferences
    clientOptions,   \* options.clientOptions, the default preferences
    urlQuery,        \* the preferences parsed from window.location.search
    serverPrefs,     \* the preferences of the last SET_PREFERENCES frame
    prefs,           \* the effective preferences last applied
    sendCall,        \* the last call of a frame encoder: its arguments and the frames sent
    sent,            \* the socket.send calls of the last step, each with the readyState it met
    last             \* the handler that ran last

flowVars == <<flowControl, written, pending, writeBuffer, nextId, lastRendered, mouseModes>>
connVars == <<socket, socketListeners, settleTimers, handshakes, opened, reconnect, doReconnect,
              closeOnDisconnect, listenerSets, refreshing, keyPrompt, tabClosed,
              unmounted, disposables, releases, nextDisposable>>
rendererVars == <<canvasAddon, webglAddon, rendererCall>>
prefVars == <<addons, writeFunc, leaveAlert, resizeOverlay, titleFixed, termOptions,
              clientOptions, urlQuery, serverPrefs, prefs>>
titleVars == <<title, documentTitle>>
codecVars == <<sendCall>>
vars == <<flowVars, connVars, rendererVars, prefVars, titleVars, codecVars, webMouseMode,
          sent, last>>

limit == flowControl.limit
highWater == flowControl.highWater
lowWater == flowControl.lowWater

\* the thresholds a caller may configure, within the bounds
FlowControls ==
    [limit : 1..MaxLimit, highWater : 0..MaxWater, lowWater : 0..MaxWater]

\* this.socket?.send(frame): nothing while the socket is undefined; otherwise the
\* call is made, whatever the readyState (the frame leaves only when it is "open")
socketSend(frame) ==
    IF socket = "none" THEN <<>> ELSE <<[frame |-> frame, state |-> socket]>>

\* sendData / sendCommand: `if (socket?.readyState !== WebSocket.OPEN) return;`
guardedSend(frame) ==
    IF socket = "open" THEN <<[frame |-> frame, state |-> socket]>> ELSE <<>>

\* --------------------------------------------------------- flow controller
\* `this.written > limit` after `this.written += data.length`
throttlesLate(w) == w > limit + 1
throttles(w) == w > limit

\* the pending count after the throttled write's `this.pending++`
afterThrottleDecrements(p) == p - 1
afterThrottle(p) == p + 1

\* the completion callback's `this.pending = Math.max(this.pending - 1, 0)`
afterCompletion(p) == Max(p - 1, 0)

\* `if (this.pending < lowWater)` inside the completion callback
sendsResumeAtLowWater(p) == p <= lowWater
sendsResumeWellBelow(p) == p < lowWater - 1
sendsResume(p) == p < lowWater

\* `if (this.pending > highWater)` after a throttled write
sendsPause(p) == p > highWater

\* terminal.write(data, callback?): the emulator queues the write
terminalWriteThrottledFirst(buf, entry) ==
    IF entry.cb THEN <<entry>> \o buf ELSE Append(buf, entry)
terminalWrite(buf, entry) == Append(buf, entry)

\* writeData(data): the new written, pending, write buffer and the frames sent
writeDataCountsEvery(entry, len) ==
    LET w == written + len IN
    IF throttles(w)
    THEN [written |-> 0,
          pending |-> afterThrottle(pending),
          writeBuffer |-> terminalWrite(writeBuffer, [entry EXCEPT !.cb = TRUE]),
          sent |-> IF sendsPause(afterThrottle(pending)) THEN socketSend("PAUSE") ELSE <<>>]
    ELSE [written |-> w,
          pending |-> afterThrottle(pending),
          writeBuffer |-> terminalWrite(writeBuffer, entry),
          sent |-> <<>>]
writeData(entry, len) ==
    LET w == written + len IN
    IF throttles(w)
    THEN [written |-> 0,
          pending |-> afterThrottle(pending),
          writeBuffer |-> terminalWrite(writeBuffer, [entry EXCEPT !.cb = TRUE]),
          sent |-> IF sendsPause(afterThrottle(pending)) THEN socketSend("PAUSE") ELSE <<>>]
    ELSE [written |-> w,
          pending |-> pending,
          writeBuffer |-> terminalWrite(writeBuffer, entry),
          sent |-> <<>>]

\* what parsing a write does to the emulator's mouse-reporting modes
parse(modes, entry) == (modes \ entry.off) \cup entry.on

\* ----------------------------------------------------------------- inputs
\* an OUTPUT payload: its byte length, the mouse-enable sequences it contains
\* (ESC[?1000h, ESC[?1002h, ESC[?1003h, ESC[?1006h) and whether it carries the
\* __TMUX_DATA__ marker that the component's onServerData callback consumes
TmuxPayload == [len |-> 1, enables |-> {}, tmux |-> TRUE]
\* every length, no escape sequence: the flow controller's inputs
PlainPayloads == [len : 0..MaxChunk, enables : {{}}, tmux : {FALSE}] \cup {TmuxPayload}
\* one length, each of the mouse-enable sequences: the mouse override's inputs
MousePayloads ==
    [len : {1}, enables : {{}} \cup {{m} : m \in MouseModes}, tmux : {FALSE}]
\* the payloads the server sends while the whole client is explored
OutputPayloads == [len : {MaxChunk}, enables : {{}}, tmux : {FALSE}] \cup {TmuxPayload}

\* the preference objects the server pushes while the whole client is explored
ServerPreferences ==
    { << <<"rendererType", "webgl">>, <<"enableSixel", "true">> >>,
      << <<"closeOnDisconnect", "true">>, <<"titleFixed", "">> >>,
      << <<"enableZmodem", "true">> >> }

\* the four mouse-enable sequences onSocketData looks for
hasMouseEnableFirstOnly(p) == 1000 \in p.enables
hasMouseEnable(p) ==
    \/ 1000 \in p.enables \/ 1002 \in p.enables
    \/ 1003 \in p.enables \/ 1006 \in p.enables

\* the component's serverDataCb: data.includes('__TMUX_DATA__:')
serverDataCb(p) == p.tmux

NoSend == [op |-> "none", command |-> <<>>, data |-> <<>>, frames |-> <<>>]

NoCall ==
    [value |-> "none", webgl |-> "ok", canvas |-> "ok",
     before |-> [canvasAddon |-> "unset", webglAddon |-> "unset"],
     ops |-> <<>>, threw |-> FALSE]

\* the state after `new Xterm(options, sendCb)`
InitClient(flowControls, firstId, firstDisposable, defaults, queries) ==
    /\ flowControl \in flowControls
    /\ written = 0
    /\ pending = 0
    /\ writeBuffer = <<>>
    /\ nextId = firstId
    /\ lastRendered = 0
    /\ mouseModes = {}
    /\ webMouseMode = FALSE
    /\ socket = "none"
    /\ socketListeners = FALSE
    /\ settleTimers = 0
    /\ handshakes = 0
    /\ opened = FALSE
    /\ reconnect = TRUE
    /\ doReconnect = TRUE
    /\ closeOnDisconnect = FALSE
    /\ listenerSets = 0
    /\ refreshing = FALSE
    /\ keyPrompt = FALSE
    /\ tabClosed = FALSE
    /\ unmounted = FALSE
    /\ disposables = <<>>
    /\ releases = <<>>
    /\ nextDisposable = firstDisposable
    /\ canvasAddon = "unset"
    /\ webglAddon = "unset"
    /\ rendererCall = NoCall
    /\ addons = {}
    /\ writeFunc = "writeData"
    /\ leaveAlert = TRUE
    /\ resizeOverlay = TRUE
    /\ titleFixed = ""
    /\ title = ""
    /\ documentTitle = ""
    /\ termOptions = <<>>
    /\ clientOptions \in defaults
    /\ urlQuery \in queries
    /\ serverPrefs = <<>>
    /\ prefs = <<>>
    /\ sendCall = NoSend
    /\ sent = <<>>
    /\ last = "new"

\* ---------------------------------------------------------------- actions
\* this.register(d), k times: the list with the new registrations, the number
\* of the next one, and whether the numbers left allow them
registered(list, first, k) ==
    IF first = 0 THEN list ELSE list \o [i \in 1..k |-> first + i - 1]
nextAfter(first, k) == IF first = 0 THEN 0 ELSE first + k
canRegister(first, k) == first = 0 \/ first + k - 1 <= MaxDisposables

\* connect(): a new WebSocket, with its open/message/close/error listeners
\* (registered together: one registration)
connect ==
    /\ canRegister(nextDisposable, 1)
    /\ socket' = "connecting"
    /\ socketListeners' = TRUE
    /\ handshakes' = 0
    /\ disposables' = registered(disposables, nextDisposable, 1)
    /\ nextDisposable' = nextAfter(nextDisposable, 1)

\* componentDidMount up to `await this.xterm.refreshToken()`: the token fetch
\* is started, open and connect follow when it has settled
componentDidMount ==
    /\ UNCHANGED codecVars
    /\ socket = "none" /\ ~refreshing /\ ~unmounted
    /\ refreshing' = TRUE
    /\ sent' = <<>>
    /\ UNCHANGED handshakes
    /\ last' = "mount"
    /\ UNCHANGED <<flowVars, rendererVars, prefVars, titleVars, webMouseMode, socket,
                   socketListeners, settleTimers, opened, reconnect, doReconnect,
                   closeOnDisconnect, listenerSets, keyPrompt, tabClosed, unmounted,
                   disposables, releases, nextDisposable>>

\* the socket's open event; onSocketOpen arms the settle-delay timer, one of at
\* most maxTimers that have not run yet
onSocketOpenWithin(maxTimers) ==
    /\ UNCHANGED codecVars
    /\ socket = "connecting"
    /\ socket' = "open"
    /\ IF socketListeners
       THEN settleTimers < maxTimers /\ settleTimers' = settleTimers + 1
       ELSE UNCHANGED settleTimers
    /\ sent' = <<>>
    /\ UNCHANGED handshakes
    /\ last' = "open"
    /\ UNCHANGED <<flowVars, rendererVars, prefVars, titleVars, webMouseMode,
                   socketListeners, opened, reconnect, doReconnect, closeOnDisconnect,
                   listenerSets, refreshing, keyPrompt, tabClosed, unmounted,
                   disposables, releases, nextDisposable>>

onSocketOpen == onSocketOpenWithin(MaxTimers)

\* the setTimeout callback of onSocketOpen: handshake, reset or first open,
\* doReconnect, initListeners.  socket.send on a socket still connecting throws
\* and ends the callback.
settleTimer ==
    /\ UNCHANGED codecVars
    /\ settleTimers > 0
    /\ settleTimers' = settleTimers - 1
    /\ sent' = socketSend("handshake")
    /\ handshakes' = IF socket = "open" THEN handshakes + 1 ELSE handshakes
    /\ last' = "settle"
    /\ IF socket = "connecting"
       THEN UNCHANGED <<opened, doReconnect, listenerSets, mouseModes, disposables,
                        nextDisposable>>
       ELSE /\ listenerSets < MaxListenerSets
            /\ canRegister(nextDisposable, 1)
            /\ opened' = TRUE
            /\ mouseModes' = IF opened THEN {} ELSE mouseModes
            /\ doReconnect' = reconnect
            /\ listenerSets' = listenerSets + 1
            /\ disposables' = registered(disposables, nextDisposable, 1)
            /\ nextDisposable' = nextAfter(nextDisposable, 1)
    /\ UNCHANGED <<flowControl, written, pending, writeBuffer, nextId, lastRendered,
                   rendererVars, prefVars, titleVars, webMouseMode, socket,
                   socketListeners, reconnect, closeOnDisconnect, refreshing, keyPrompt,
                   tabClosed, unmounted, releases>>

\* dispose(): every registered disposable is released and the list emptied
disposeKeepsList ==
    /\ socketListeners' = FALSE
    /\ listenerSets' = 0
    /\ releases' = releases \o disposables
    /\ disposables' = disposables
dispose ==
    /\ socketListeners' = FALSE
    /\ listenerSets' = 0
    /\ releases' = releases \o disposables
    /\ disposables' = <<>>

\* componentWillUnmount
componentWillUnmount ==
    /\ UNCHANGED codecVars
    /\ socket # "none" \/ refreshing
    /\ ~unmounted
    /\ unmounted' = TRUE
    /\ dispose
    /\ sent' = <<>>
    /\ UNCHANGED handshakes
    /\ last' = "dispose"
    /\ UNCHANGED <<flowVars, rendererVars, prefVars, titleVars, webMouseMode, socket,
                   settleTimers, opened, reconnect, doReconnect, closeOnDisconnect,
                   refreshing, keyPrompt, tabClosed, nextDisposable>>

CloseCodes == {1000, 1006}

\* `if (event.code !== 1000 && doReconnect)`
reconnectsOnNormalClosure(code, allowed) == allowed
reconnectsOnlyOnNormalClosure(code, allowed) == code = 1000 /\ allowed
reconnects(code, allowed) == code # 1000 /\ allowed

\* the socket's close event and onSocketClose(event)
onSocketClose(code) ==
    /\ UNCHANGED codecVars
    /\ socket \in {"connecting", "open"}
    /\ socket' = "closed"
    /\ sent' = <<>>
    /\ UNCHANGED handshakes
    /\ last' = "close"
    /\ IF socketListeners
       THEN /\ dispose
            /\ IF reconnects(code, doReconnect)
               THEN refreshing' = TRUE /\ UNCHANGED <<tabClosed, keyPrompt>>
               ELSE IF closeOnDisconnect
                    THEN tabClosed' = TRUE /\ UNCHANGED <<refreshing, keyPrompt>>
                    ELSE keyPrompt' = TRUE /\ UNCHANGED <<refreshing, tabClosed>>
       ELSE UNCHANGED <<socketListeners, listenerSets, refreshing, tabClosed, keyPrompt,
                        disposables, releases>>
    /\ UNCHANGED <<flowVars, rendererVars, prefVars, titleVars, webMouseMode,
                   settleTimers, opened, reconnect, doReconnect, closeOnDisconnect,
                   unmounted, nextDisposable>>

\* refreshToken().then(connect), and the rest of componentDidMount: the token
\* fetch settles, with a new token or with an error that is logged, and connect
\* runs
refreshThenConnect ==
    /\ UNCHANGED codecVars
    /\ refreshing
    /\ refreshing' = FALSE
    /\ connect
    /\ sent' = <<>>
    /\ last' = "connect"
    /\ UNCHANGED <<flowVars, rendererVars, prefVars, titleVars, webMouseMode,
                   settleTimers, opened, reconnect, doReconnect, closeOnDisconnect,
                   listenerSets, keyPrompt, tabClosed, unmounted, releases>>

\* the reconnect prompt's onKey handler, key Enter
pressEnterConnectsAtOnce ==
    /\ UNCHANGED codecVars
    /\ keyPrompt
    /\ ~refreshing
    /\ keyPrompt' = FALSE
    /\ connect
    /\ sent' = <<>>
    /\ last' = "connect"
    /\ UNCHANGED <<flowVars, rendererVars, prefVars, titleVars, webMouseMode,
                   settleTimers, opened, reconnect, doReconnect, closeOnDisconnect,
                   listenerSets, tabClosed, unmounted, releases, refreshing>>
pressEnterKeepsPrompt ==
    /\ UNCHANGED codecVars
    /\ keyPrompt
    /\ ~refreshing
    /\ keyPrompt' = keyPrompt
    /\ refreshing' = TRUE
    /\ sent' = <<>>
    /\ UNCHANGED handshakes
    /\ last' = "enter"
    /\ UNCHANGED <<flowVars, rendererVars, prefVars, titleVars, webMouseMode, socket,
                   socketListeners, settleTimers, opened, reconnect, doReconnect,
                   closeOnDisconnect, listenerSets, tabClosed, unmounted, disposables,
                   releases, nextDisposable>>
pressEnter ==
    /\ UNCHANGED codecVars
    /\ keyPrompt
    /\ ~refreshing
    /\ keyPrompt' = FALSE
    /\ refreshing' = TRUE
    /\ sent' = <<>>
    /\ UNCHANGED handshakes
    /\ last' = "enter"
    /\ UNCHANGED <<flowVars, rendererVars, prefVars, titleVars, webMouseMode, socket,
                   socketListeners, settleTimers, opened, reconnect, doReconnect,
                   closeOnDisconnect, listenerSets, tabClosed, unmounted, disposables,
                   releases, nextDisposable>>

\* the reconnect prompt's onKey handler, any other key:
\* `if (e.domEvent.key === 'Enter')` is false
pressOtherKeyReconnects ==
    /\ keyPrompt
    /\ ~refreshing
    /\ refreshing' = TRUE
    /\ sent' = <<>>
    /\ UNCHANGED handshakes
    /\ last' = "key"
    /\ UNCHANGED <<flowVars, rendererVars, prefVars, titleVars, codecVars, webMouseMode,
                   socket, socketListeners, settleTimers, opened, reconnect, doReconnect,
                   closeOnDisconnect, listenerSets, keyPrompt, tabClosed, unmounted,
                   disposables, releases, nextDisposable>>
pressOtherKey ==
    /\ keyPrompt
    /\ sent' = <<>>
    /\ UNCHANGED handshakes
    /\ last' = "key"
    /\ UNCHANGED <<flowVars, connVars, rendererVars, prefVars, titleVars, codecVars,
                   webMouseMode>>

\* the file-transfer addon's consume(data): it hands the bytes to its writer
\* (writeData) or keeps them as file-transfer protocol data
ConsumeOutcomes == {"write", "keep"}

\* onSocketData(event), command OUTPUT
onSocketDataOutput(p, consume) ==
    /\ UNCHANGED codecVars
    /\ socket = "open" /\ socketListeners
    /\ nextId <= MaxFrames
    /\ nextId' = IF nextId = 0 THEN 0 ELSE nextId + 1
    /\ writeFunc = "writeData" => consume = "write"
    /\ IF \/ webMouseMode /\ hasMouseEnable(p)
          \/ serverDataCb(p)
          \/ consume = "keep"
       THEN /\ sent' = <<>>
            /\ UNCHANGED handshakes
            /\ last' = "dropped"
            /\ UNCHANGED <<written, pending, writeBuffer>>
       ELSE /\ Len(writeBuffer) < MaxQueue
            /\ UNCHANGED handshakes
            /\ last' = "output"
            /\ \E r \in {writeData([id |-> nextId, on |-> p.enables, off |-> {},
                                    cb |-> FALSE], p.len)} :
               /\ written' = r.written
               /\ pending' = r.pending
               /\ writeBuffer' = r.writeBuffer
               /\ sent' = r.sent
    /\ UNCHANGED <<flowControl, lastRendered, mouseModes, webMouseMode, connVars,
                   rendererVars, prefVars, titleVars>>

Titles == {"remote"}

\* onSocketData(event), command SET_WINDOW_TITLE
onSocketDataTitle(t) ==
    /\ UNCHANGED codecVars
    /\ socket = "open" /\ socketListeners
    /\ title' = t
    /\ documentTitle' = t
    /\ sent' = <<>>
    /\ UNCHANGED handshakes
    /\ last' = "title"
    /\ UNCHANGED <<flowVars, connVars, rendererVars, prefVars, webMouseMode>>

\* options.termOptions, the emulator options given at construction
TermOptions == << <<"fontSize", "13">>, <<"theme", "{}">> >>

\* terminal.options
terminalOptions == Spread(TermOptions, termOptions)

\* the titles the emulator reports through onTitleChange
EmulatorTitles == {"", "shell"}

\* `data + ' | ' + this.title`
titleOf(data, t) == data \o " | " \o (IF t = "" THEN "undefined" ELSE t)

\* the onTitleChange listener of initListeners, once for each registered set
terminalOnTitleChange(data) ==
    /\ UNCHANGED codecVars
    /\ listenerSets > 0
    /\ documentTitle' = IF data # "" /\ ~Truthy(titleFixed)
                        THEN titleOf(data, title)
                        ELSE documentTitle
    /\ sent' = <<>>
    /\ UNCHANGED handshakes
    /\ last' = "titleChange"
    /\ UNCHANGED <<flowVars, connVars, rendererVars, prefVars, webMouseMode, title>>

\* onSocketData(event), command SET_PREFERENCES: applyPreferences on the merged
\* object
setPreferences(effective, webgl, canvas) ==
    /\ UNCHANGED codecVars
    /\ socket = "open" /\ socketListeners
    /\ \E c \in {applyPreferences(
                    [r |-> [canvasAddon |-> canvasAddon, webglAddon |-> webglAddon,
                            ops |-> <<>>, threw |-> FALSE],
                     registers |-> 0,
                     addons |-> addons, writeFunc |-> writeFunc,
                     leaveAlert |-> leaveAlert, resizeOverlay |-> resizeOverlay,
                     reconnect |-> reconnect, doReconnect |-> doReconnect,
                     closeOnDisconnect |-> closeOnDisconnect,
                     titleFixed |-> titleFixed, documentTitle |-> documentTitle,
                     termOptions |-> termOptions],
                    effective, webgl, canvas)} :
       /\ canvasAddon' = c.r.canvasAddon
       /\ webglAddon' = c.r.webglAddon
       /\ addons' = c.addons
       /\ writeFunc' = c.writeFunc
       /\ leaveAlert' = c.leaveAlert
       /\ resizeOverlay' = c.resizeOverlay
       /\ reconnect' = c.reconnect
       /\ doReconnect' = c.doReconnect
       /\ closeOnDisconnect' = c.closeOnDisconnect
       /\ titleFixed' = c.titleFixed
       /\ documentTitle' = c.documentTitle
       /\ termOptions' = c.termOptions
       /\ canRegister(nextDisposable, c.registers)
       /\ disposables' = registered(disposables, nextDisposable, c.registers)
       /\ nextDisposable' = nextAfter(nextDisposable, c.registers)
    /\ sent' = <<>>
    /\ UNCHANGED handshakes
    /\ last' = "preferences"
    /\ UNCHANGED <<flowVars, webMouseMode, socket, socketListeners, settleTimers, opened,
                   listenerSets, refreshing, keyPrompt, tabClosed, unmounted, releases,
                   rendererCall, clientOptions, serverPrefs, prefs, title>>

\* SET_PREFERENCES while window.location.search is what it was at construction
onSocketDataPreferences(server, webgl, canvas) ==
    /\ setPreferences(EffectivePreferences(clientOptions, server, urlQuery), webgl, canvas)
    /\ UNCHANGED urlQuery

\* SET_PREFERENCES with the query string `search`: a JSON.parse that throws
\* ends the handler before anything is applied
onSocketDataPreferencesQuery(server, search) ==
    \E parsed \in {parseOptsFromUrlQuery(search, clientOptions, terminalOptions)} :
        IF parsed.threw
        THEN /\ socket = "open" /\ socketListeners
             /\ sent' = <<>>
             /\ last' = "preferences"
             /\ UNCHANGED <<flowVars, connVars, rendererVars, prefVars, titleVars,
                            codecVars, webMouseMode>>
        ELSE /\ urlQuery' = parsed.prefs
             /\ setPreferences(EffectivePreferences(clientOptions, server, parsed.prefs),
                               "ok", "ok")

\* the WebGL backend loses its context: the handler registered by enableWebgl
\* disposes the addon, the field keeps holding it
webglContextLoss ==
    /\ UNCHANGED codecVars
    /\ webglAddon = "loaded"
    /\ webglAddon' = "lost"
    /\ sent' = <<>>
    /\ UNCHANGED handshakes
    /\ last' = "contextLoss"
    /\ UNCHANGED <<flowVars, connVars, prefVars, titleVars, webMouseMode, canvasAddon,
                   rendererCall>>

\* the emulator parses the oldest queued write and then runs its callback:
\*   this.pending = Math.max(this.pending - 1, 0);
\*   if (this.pending < lowWater) this.socket?.send(RESUME)
terminalParse ==
    /\ UNCHANGED codecVars
    /\ writeBuffer # <<>>
    /\ LET e == Head(writeBuffer) IN
       /\ writeBuffer' = Tail(writeBuffer)
       /\ mouseModes' = parse(mouseModes, e)
       /\ lastRendered' = IF e.id > 0 THEN e.id ELSE lastRendered
       /\ IF e.cb
          THEN /\ pending' = afterCompletion(pending)
               /\ sent' = IF sendsResume(afterCompletion(pending))
                          THEN socketSend("RESUME") ELSE <<>>
               /\ UNCHANGED handshakes
               /\ last' = "completion"
          ELSE /\ UNCHANGED pending
               /\ sent' = <<>>
               /\ UNCHANGED handshakes
               /\ last' = "parse"
    /\ UNCHANGED <<flowControl, written, nextId, webMouseMode, connVars, rendererVars,
                   prefVars, titleVars>>

\* the escape sequences setWebMouseMode writes into the emulator:
\* ESC[?1000l ESC[?1002l ESC[?1003l ESC[?1006l, or the same with h
mouseSequencesDisableOnly(enabled) ==
    [id |-> 0, on |-> {}, off |-> MouseModes, cb |-> FALSE]
mouseSequences(enabled) ==
    IF enabled
    THEN [id |-> 0, on |-> {}, off |-> MouseModes, cb |-> FALSE]
    ELSE [id |-> 0, on |-> MouseModes, off |-> {}, cb |-> FALSE]

\* `this.webMouseMode = enabled`
newWebMouseModeToggles(current, enabled) == IF enabled THEN ~current ELSE FALSE
newWebMouseMode(current, enabled) == enabled

\* setWebMouseMode(enabled)
setWebMouseMode(enabled) ==
    /\ UNCHANGED codecVars
    /\ socket # "none"
    /\ Len(writeBuffer) < MaxQueue
    /\ webMouseMode' = newWebMouseMode(webMouseMode, enabled)
    /\ writeBuffer' = terminalWrite(writeBuffer, mouseSequences(enabled))
    /\ sent' = IF enabled THEN <<>> ELSE guardedSend("4")
    /\ UNCHANGED handshakes
    /\ last' = IF enabled THEN "mouseOn" ELSE "mouseOff"
    /\ UNCHANGED <<flowControl, written, pending, nextId, lastRendered, mouseModes,
                   connVars, rendererVars, prefVars, titleVars>>

\* what the emulator's encoder produces: key input or a mouse report
\* (ESC[M..., ESC[<...)
EmulatorData == {"key", "mouse"}

\* the emulator encodes mouse reports only while one of its mouse-reporting
\* modes is on
emulatorProduces(data) == data = "mouse" => mouseModes # {}

\* sendData(data), once for each registered listener set
sendDataPerListener(data) ==
    [i \in 1..(IF socket = "open" THEN listenerSets ELSE 0) |->
        [frame |-> "INPUT", state |-> socket, data |-> data]]

\* the onData listener of every registered listener set, then sendData
terminalOnData(data) ==
    /\ UNCHANGED codecVars
    /\ listenerSets > 0
    /\ emulatorProduces(data)
    /\ sent' = IF webMouseMode /\ data = "mouse"
               THEN <<>>
               ELSE sendDataPerListener(data)
    /\ UNCHANGED handshakes
    /\ last' = "data"
    /\ UNCHANGED <<flowVars, connVars, rendererVars, prefVars, titleVars, webMouseMode>>

\* the onBinary listener of every registered listener set:
\* sendData(Uint8Array.from(data, ...)), whatever the data begins with
terminalOnBinary(data) ==
    /\ UNCHANGED codecVars
    /\ listenerSets > 0
    /\ emulatorProduces(data)
    /\ sent' = sendDataPerListener(data)
    /\ UNCHANGED handshakes
    /\ last' = "binary"
    /\ UNCHANGED <<flowVars, connVars, rendererVars, prefVars, titleVars, webMouseMode>>

\* the onResize listener of every registered listener set:
\* this.socket?.send(RESIZE_TERMINAL + JSON)
terminalOnResize ==
    /\ UNCHANGED codecVars
    /\ listenerSets > 0
    /\ sent' = [i \in 1..listenerSets |-> [frame |-> "RESIZE", state |-> socket]]
    /\ UNCHANGED handshakes
    /\ last' = "resize"
    /\ UNCHANGED <<flowVars, connVars, rendererVars, prefVars, titleVars, webMouseMode>>

\* the frames a guarded encoder hands to the socket:
\* `if (socket?.readyState !== WebSocket.OPEN) return;`
framesSent(frame) == IF socket = "open" THEN <<frame>> ELSE <<>>

\* the component's sendKey: sendData(key) with a string
sendKey(data) ==
    /\ socket # "none"
    /\ sendCall' = [op |-> "sendData", command |-> CommandInput, data |-> data,
                    frames |-> framesSent(sendDataText(data))]
    /\ sent' = guardedSend("INPUT")
    /\ UNCHANGED handshakes
    /\ last' = "sendKey"
    /\ UNCHANGED <<flowVars, connVars, rendererVars, prefVars, titleVars, webMouseMode>>

\* the onBinary listener: sendData(bytes) with a Uint8Array
sendBinary(data) ==
    /\ listenerSets > 0
    /\ sendCall' = [op |-> "sendBinary", command |-> CommandInput, data |-> data,
                    frames |-> framesSent(sendDataBinary(data))]
    /\ sent' = guardedSend("INPUT")
    /\ UNCHANGED handshakes
    /\ last' = "sendBinary"
    /\ UNCHANGED <<flowVars, connVars, rendererVars, prefVars, titleVars, webMouseMode>>

\* the component's sidebar: sendCommand(cmd) and sendCommand(cmd, data)
sidebarCommand(cmd, data) ==
    /\ socket # "none"
    /\ sendCall' = [op |-> "sendCommand", command |-> cmd, data |-> data,
                    frames |-> framesSent(sendCommand(cmd, data))]
    /\ sent' = guardedSend("sidebar")
    /\ UNCHANGED handshakes
    /\ last' = "sidebar"
    /\ UNCHANGED <<flowVars, connVars, rendererVars, prefVars, titleVars, webMouseMode>>

\* the onResize listener with the emulator's new size:
\* this.socket?.send(encode(RESIZE_TERMINAL + JSON.stringify({ columns, rows })))
resizeTerminal(cols, rows) ==
    /\ listenerSets > 0
    /\ sendCall' = [op |-> "resize", command |-> CommandResize,
                    data |-> [columns |-> cols, rows |-> rows],
                    frames |-> <<resizeFrame(cols, rows)>>]
    /\ sent' = socketSend("RESIZE")
    /\ UNCHANGED handshakes
    /\ last' = "resize"
    /\ UNCHANGED <<flowVars, connVars, rendererVars, prefVars, titleVars, webMouseMode>>

\* a direct call of setRendererType(value), with the failures the two
\* instantiations meet
setRendererTypeCall(value, webgl, canvas) ==
    /\ UNCHANGED codecVars
    /\ \E r \in {setRendererType([canvasAddon |-> canvasAddon, webglAddon |-> webglAddon,
                                  ops |-> <<>>, threw |-> FALSE],
                                 value, webgl, canvas)} :
       /\ canvasAddon' = r.canvasAddon
       /\ webglAddon' = r.webglAddon
       /\ rendererCall' = [value |-> value, webgl |-> webgl, canvas |-> canvas,
                           before |-> [canvasAddon |-> canvasAddon,
                                       webglAddon |-> webglAddon],
                           ops |-> r.ops, threw |-> r.threw]
    /\ sent' = <<>>
    /\ UNCHANGED handshakes
    /\ last' = "setRendererType"
    /\ UNCHANGED <<flowVars, connVars, prefVars, titleVars, webMouseMode>>

\* the merge of onSocketData's SET_PREFERENCES case, applied to a pushed object
mergePreferences(server) ==
    /\ UNCHANGED codecVars
    /\ serverPrefs' = server
    /\ prefs' = EffectivePreferences(clientOptions, server, urlQuery)
    /\ sent' = <<>>
    /\ UNCHANGED handshakes
    /\ last' = "merge"
    /\ UNCHANGED <<flowVars, connVars, rendererVars, titleVars, webMouseMode, addons,
                   writeFunc, leaveAlert, resizeOverlay, titleFixed, termOptions,
                   clientOptions, urlQuery>>

\* -------------------------------------------------------- the whole client
\* the thresholds the whole client is explored with
ClientFlowControls == {[limit |-> 2, highWater |-> 1, lowWater |-> 1]}

Init == InitClient(ClientFlowControls, 0, 0, {<<>>}, {<<>>})

Next ==
    \/ componentDidMount
    \/ onSocketOpen
    \/ settleTimer
    \/ componentWillUnmount
    \/ \E code \in CloseCodes : onSocketClose(code)
    \/ refreshThenConnect
    \/ pressEnter
    \/ \E p \in OutputPayloads, consume \in ConsumeOutcomes : onSocketDataOutput(p, consume)
    \/ \E t \in Titles : onSocketDataTitle(t)
    \/ \E server \in ServerPreferences, webgl, canvas \in FailureModes :
           onSocketDataPreferences(server, webgl, canvas)
    \/ webglContextLoss
    \/ terminalParse
    \/ \E enabled \in BOOLEAN : setWebMouseMode(enabled)
    \/ \E data \in EmulatorData : terminalOnData(data)
    \/ \E data \in EmulatorData : terminalOnBinary(data)
    \/ terminalOnResize

Spec == Init /\ [][Next]_vars

\* ------------------------------------------------------ the flow controller
\* every threshold within the bounds, numbered OUTPUT frames of every length,
\* the socket opening, closing and reconnecting underneath
InitFlow == InitClient(FlowControls, 1, 0, {<<>>}, {<<>>})

NextFlow ==
    \/ componentDidMount
    \/ onSocketOpen
    \/ settleTimer
    \/ \E code \in CloseCodes : onSocketClose(code)
    \/ refreshThenConnect
    \/ \E p \in PlainPayloads : onSocketDataOutput(p, "write")
    \/ terminalParse

SpecFlow == InitFlow /\ [][NextFlow]_vars

\* ---------------------------------------------------------- the backpressure
\* the flow controller with an emulator that parses every write it has queued,
\* so that every completion callback that was issued fires in the end; the
\* remote either never runs out of frames (they are not numbered) or sends its
\* numbered frames and then no more
InitBackpressure ==
    \/ InitClient(FlowControls, 0, 0, {<<>>}, {<<>>})
    \/ InitClient(FlowControls, 1, 0, {<<>>}, {<<>>})

NextBackpressure ==
    \/ componentDidMount
    \/ refreshThenConnect
    \/ onSocketOpen
    \/ settleTimer
    \/ \E code \in CloseCodes : onSocketClose(code)
    \/ \E p \in PlainPayloads : onSocketDataOutput(p, "write")
    \/ terminalParse

SpecBackpressure ==
    InitBackpressure /\ [][NextBackpressure]_vars /\ WF_vars(terminalParse)

\* ------------------------------------------------------- the mouse override
InitMouse == InitClient(ClientFlowControls, 0, 0, {<<>>}, {<<>>})

NextMouse ==
    \/ componentDidMount
    \/ onSocketOpen
    \/ settleTimer
    \/ \E code \in CloseCodes : onSocketClose(code)
    \/ refreshThenConnect
    \/ \E p \in MousePayloads : onSocketDataOutput(p, "write")
    \/ terminalParse
    \/ \E enabled \in BOOLEAN : setWebMouseMode(enabled)
    \/ \E data \in EmulatorData : terminalOnData(data)
    \/ \E data \in EmulatorData : terminalOnBinary(data)

SpecMouse == InitMouse /\ [][NextMouse]_vars

\* ------------------------------------------------------- renderer selection
InitRenderer == InitClient(ClientFlowControls, 0, 0, {<<>>}, {<<>>})

NextRenderer ==
    \/ \E value \in RendererTypes, webgl, canvas \in FailureModes :
           setRendererTypeCall(value, webgl, canvas)
    \/ webglContextLoss

SpecRenderer == InitRenderer /\ [][NextRenderer]_vars

\* ------------------------------------------------------ the preference merge
\* the query string carries at most one override
QueryObjects == {o \in PrefObjects : Len(o) <= 1}

InitMerge == InitClient(ClientFlowControls, 0, 0, PrefObjects, QueryObjects)

NextMerge == \E server \in PrefObjects : mergePreferences(server)

SpecMerge == InitMerge /\ [][NextMerge]_vars

\* ------------------------------------------------- the connection lifecycle
\* registrations are numbered; the socket opens, closes with either code and
\* reconnects, the component unmounts, the server pushes its preferences and
\* output, the emulator resizes
InitLifecycle == InitClient(ClientFlowControls, 0, 1, {<<>>}, {<<>>})

NextLifecycle ==
    \/ componentDidMount
    \/ refreshThenConnect
    \/ onSocketOpen
    \/ settleTimer
    \/ componentWillUnmount
    \/ \E code \in CloseCodes : onSocketClose(code)
    \/ pressEnter
    \/ pressOtherKey
    \/ \E p \in OutputPayloads, consume \in ConsumeOutcomes : onSocketDataOutput(p, consume)
    \/ \E server \in ServerPreferences : onSocketDataPreferences(server, "ok", "ok")
    \/ terminalParse
    \/ terminalOnResize

SpecLifecycle == InitLifecycle /\ [][NextLifecycle]_vars

\* ------------------------------------------------------------ the reconnect
\* the socket and the component alone; a token fetch that was started settles
\* in the end, with a token or with an error
InitReconnect == InitClient(ClientFlowControls, 0, 0, {<<>>}, {<<>>})

NextReconnect ==
    \/ componentDidMount
    \/ refreshThenConnect
    \/ onSocketOpen
    \/ settleTimer
    \/ componentWillUnmount
    \/ \E code \in CloseCodes : onSocketClose(code)
    \/ pressEnter
    \/ pressOtherKey
    \/ \E server \in ServerPreferences : onSocketDataPreferences(server, "ok", "ok")
    \/ \E p \in OutputPayloads, consume \in ConsumeOutcomes : onSocketDataOutput(p, consume)
    \/ terminalParse

SpecReconnect == InitReconnect /\ [][NextReconnect]_vars /\ WF_vars(refreshThenConnect)

\* ------------------------------------------------------------ the handshake
\* a socket may open while the settle timer of the one before it has not run
InitHandshake == InitClient(ClientFlowControls, 0, 0, {<<>>}, {<<>>})

NextHandshake ==
    \/ componentDidMount
    \/ refreshThenConnect
    \/ onSocketOpenWithin(MaxRacingTimers)
    \/ settleTimer
    \/ componentWillUnmount
    \/ \E code \in CloseCodes : onSocketClose(code)
    \/ pressEnter
    \/ pressOtherKey
    \/ \E server \in ServerPreferences : onSocketDataPreferences(server, "ok", "ok")
    \/ terminalOnResize

SpecHandshake == InitHandshake /\ [][NextHandshake]_vars

\* ----------------------------------------------------------- the window title
\* the server pins the title or not, and pushes titles; the emulator reports its own
TitlePreferences ==
    { << <<"titleFixed", "pinned">> >>,
      << <<"titleFixed", "">>, <<"closeOnDisconnect", "true">> >> }

InitTitle == InitClient(ClientFlowControls, 0, 0, {<<>>}, {<<>>})

NextTitle ==
    \/ componentDidMount
    \/ refreshThenConnect
    \/ onSocketOpen
    \/ settleTimer
    \/ \E code \in CloseCodes : onSocketClose(code)
    \/ pressEnter
    \/ \E server \in TitlePreferences : onSocketDataPreferences(server, "ok", "ok")
    \/ \E t \in Titles : onSocketDataTitle(t)
    \/ \E data \in EmulatorTitles : terminalOnTitleChange(data)

SpecTitle == InitTitle /\ [][NextTitle]_vars

\* --------------------------------------------------------- the query string
\* the page is opened with default preferences and any query string within the
\* bounds; the server pushes its preferences
QueryKeys == {"enableSixel", "trzszDragInitTimeout", "rendererType", "theme", "arg"}
QueryValues == { <<"1">>, <<"t", "r", "u", "e">>, <<"1", "2", "p", "x">>, <<"{", "}">> }
RECURSIVE Queries(_)
Queries(n) ==
    IF n = 0 THEN {<<>>}
    ELSE Queries(n - 1) \cup
         {Append(q, <<k, v>>) : q \in {r \in Queries(n - 1) : Len(r) = n - 1},
                                k \in QueryKeys, v \in QueryValues}

QueryServerPreferences == { << <<"enableSixel", "true">> >> }

DefaultPreferences ==
    << <<"rendererType", "dom">>, <<"enableSixel", "false">>,
       <<"trzszDragInitTimeout", "30">> >>

InitQuery == InitClient(ClientFlowControls, 0, 0, {DefaultPreferences}, {<<>>})

NextQuery ==
    \/ componentDidMount
    \/ refreshThenConnect
    \/ onSocketOpen
    \/ settleTimer
    \/ \E server \in QueryServerPreferences, search \in Queries(MaxQuery) :
           onSocketDataPreferencesQuery(server, search)

SpecQuery == InitQuery /\ [][NextQuery]_vars

\* ----------------------------------------------------------- the frame codec
\* every text, binary payload and size within the bounds, on a connected client
InitCodec == InitClient(ClientFlowControls, 0, 0, {<<>>}, {<<>>})

NextCodec ==
    \/ componentDidMount
    \/ refreshThenConnect
    \/ onSocketOpen
    \/ settleTimer
    \/ \E data \in Texts : sendKey(data)
    \/ \E data \in BinaryData : sendBinary(data)
    \/ \E cmd \in SidebarCommands, data \in Texts : sidebarCommand(cmd, data)
    \/ \E cols, rows \in Sizes : resizeTerminal(cols, rows)

SpecCodec == InitCodec /\ [][NextCodec]_vars

\* ------------------------------------------------------------------ claims
ResumeSent == \E i \in DOMAIN sent : sent[i].frame = "RESUME"
PauseSent == \E i \in DOMAIN sent : sent[i].frame = "PAUSE"
LastWrite == writeBuffer[Len(writeBuffer)]

\* C1: under every interleaving of writeData calls and write-completion
\* callbacks the flow-window counter pending is never negative.
PendingNonNegative == pending >= 0

\* a completion callback has brought pending back to 0 while the socket was open
PendingBackToZero == last = "completion" /\ pending = 0 /\ lastRendered > 0

\* C2, as stated: a RESUME is sent exactly in the steps in which pending goes from
\* a value >= lowWater to a value < lowWater.
ResumeOnlyOnCrossing ==
    [][(\E i \in DOMAIN sent' : sent'[i].frame = "RESUME")
          <=> (pending >= lowWater /\ pending' < lowWater)]_vars

\* C2, amended: a RESUME send is issued exactly by the write-completion callbacks
\* that leave pending below lowWater, also when pending was below lowWater before.
ResumeIffBelowLowWater ==
    ResumeSent <=> (last = "completion" /\ pending < lowWater)

\* a completion that found pending already below lowWater and sent RESUME
ResumeBelowLowWaterAlready ==
    last = "completion" /\ ResumeSent /\ pending + 1 < lowWater

\* C3: a writeData call that leaves the cumulative length above limit delivers
\* with a completion callback (an unthrottled delivery leaves written <= limit),
\* and a throttled delivery that leaves pending > highWater sends PAUSE.
ThrottledDeliveryAndPause ==
    last = "output" =>
        IF LastWrite.cb
        THEN written = 0 /\ (pending > highWater => PauseSent)
        ELSE written <= limit

\* a throttled delivery that left pending above highWater and sent PAUSE
PauseAboveHighWater ==
    last = "output" /\ LastWrite.cb /\ pending > highWater /\ PauseSent

\* C4: pending decreases only in a write-completion callback and increases only
\* in a writeData call that issues a throttled write; every other step leaves it.
PendingFrame ==
    [][/\ pending' < pending => last' = "completion"
       /\ pending' > pending =>
              last' = "output" /\ writeBuffer'[Len(writeBuffer')].cb]_vars

\* the socket has closed, and the listeners were disposed, with writes outstanding
CloseWithPending == last = "close" /\ pending > 0 /\ ~socketListeners

\* C5: the emulator receives the OUTPUT frames in arrival order: the queued
\* writes carry increasing arrival numbers, all above the last one parsed.
InArrivalOrder ==
    /\ \A i, j \in DOMAIN writeBuffer :
          i < j => writeBuffer[i].id < writeBuffer[j].id
    /\ \A i \in DOMAIN writeBuffer : writeBuffer[i].id > lastRendered

\* a throttled write queued ahead of an unthrottled one, after earlier frames
ThrottledAheadOfUnthrottled ==
    /\ lastRendered > 0
    /\ Len(writeBuffer) = 2
    /\ writeBuffer[1].cb /\ ~writeBuffer[2].cb

\* C6: the effective preferences give each key the query value if the query has
\* it, else the server value if the server object has it, else the default; and
\* merging in two steps equals merging the already merged server and query.
MergePrecedence ==
    last = "merge" =>
        /\ Keys(prefs) = Keys(clientOptions) \cup Keys(serverPrefs) \cup Keys(urlQuery)
        /\ \A k \in Keys(prefs) :
              Get(prefs, k) = IF Has(urlQuery, k) THEN Get(urlQuery, k)
                              ELSE IF Has(serverPrefs, k) THEN Get(serverPrefs, k)
                              ELSE Get(clientOptions, k)
        /\ prefs = Spread(clientOptions, Spread(serverPrefs, urlQuery))

\* a key set by all three sources, the query differing from the server
QueryBeatsServerAndDefault ==
    /\ last = "merge"
    /\ \E k \in Keys(urlQuery) :
          /\ Has(serverPrefs, k) /\ Has(clientOptions, k)
          /\ Get(urlQuery, k) # Get(serverPrefs, k)
          /\ Get(prefs, k) = Get(urlQuery, k)

\* C7, as stated: requesting webgl while WebGL instantiation fails (and Canvas
\* can be instantiated) ends with the Canvas backend active and no WebGL backend.
WebglFailureFallsBackToCanvas ==
    (/\ last = "setRendererType"
     /\ rendererCall.value = "webgl"
     /\ rendererCall.webgl # "ok"
     /\ rendererCall.canvas = "ok"
     /\ rendererCall.before.webglAddon = "unset")
    => canvasAddon = "loaded" /\ webglAddon = "unset"

\* the backend the client records as active
Active(b) ==
    IF b.canvasAddon # "unset" THEN "canvas"
    ELSE IF b.webglAddon # "unset" THEN "webgl"
    ELSE "dom"

\* C8: requesting the backend that is recorded as active disposes nothing,
\* instantiates nothing and leaves the renderer fields unchanged.
RendererIdempotent ==
    (last = "setRendererType" /\ rendererCall.value = Active(rendererCall.before))
    => /\ rendererCall.ops = <<>>
       /\ ~rendererCall.threw
       /\ canvasAddon = rendererCall.before.canvasAddon
       /\ webglAddon = rendererCall.before.webglAddon

\* webgl requested while the WebGL backend is loaded
WebglRequestedWhileActive ==
    /\ last = "setRendererType"
    /\ rendererCall.value = "webgl"
    /\ rendererCall.before.webglAddon = "loaded"

\* the emulator's mouse-reporting modes once it has parsed every queued write
RECURSIVE ParseAll(_, _)
ParseAll(modes, buf) ==
    IF buf = <<>> THEN modes ELSE ParseAll(parse(modes, Head(buf)), Tail(buf))
EffectiveModes == ParseAll(mouseModes, writeBuffer)

\* C9: a second setWebMouseMode(true) right after a first one leaves the flag and
\* the emulator's effective mouse-reporting modes as the first one left them.
EnableTwiceIsEnableOnce ==
    [][(last = "mouseOn" /\ last' = "mouseOn")
          => (webMouseMode' = webMouseMode /\ EffectiveModes' = EffectiveModes)]_vars

\* two setWebMouseMode(true) calls in a row, their writes still queued
EnabledTwiceInARow ==
    /\ last = "mouseOn"
    /\ Len(writeBuffer) = 2
    /\ writeBuffer[1] = mouseSequences(TRUE) /\ writeBuffer[2] = mouseSequences(TRUE)

MouseReportSent ==
    \E i \in DOMAIN sent : sent[i].frame = "INPUT" /\ sent[i].data = "mouse"

\* C11, as stated: while the web-mouse-mode flag is set, no mouse report that the
\* emulator produces is transmitted to the remote.
NoMouseReportWhileWebMouseMode == webMouseMode => ~MouseReportSent

\* C12: an OUTPUT frame that contains a mouse-enable sequence is dropped whole
\* while the flag is set (nothing written to the emulator, written and pending
\* unchanged, nothing sent) and is handed to the emulator when the flag is clear.
MouseEnableFrameDropped ==
    [][\A p \in MousePayloads :
          (p.enables # {} /\ onSocketDataOutput(p, "write")) =>
              IF webMouseMode
              THEN UNCHANGED <<writeBuffer, written, pending, mouseModes>> /\ sent' = <<>>
              ELSE /\ Len(writeBuffer') = Len(writeBuffer) + 1
                   /\ writeBuffer'[Len(writeBuffer')].on = p.enables]_vars

\* a frame was dropped by the mouse filter while earlier output is still queued
FrameDroppedByMouseFilter ==
    last = "dropped" /\ webMouseMode /\ writeBuffer # <<>>

\* a frame decoded: its command and its payload, as text, bytes or size
decodedAs(op, frame) ==
    [command |-> frameCommand(frame),
     data |-> IF op = "sendBinary" THEN framePayload(frame)
              ELSE IF op = "resize" THEN parseSize(textDecode(framePayload(frame)))
              ELSE textDecode(framePayload(frame))]

\* the frames of the last encoder call decode to the call's command and payload
RoundTrips ==
    \A i \in DOMAIN sendCall.frames :
        decodedAs(sendCall.op, sendCall.frames[i])
            = [command |-> sendCall.command, data |-> sendCall.data]

\* C13: decoding a frame that the client encoded under one of its command tags
\* (INPUT with text or bytes, RESIZE_TERMINAL with a { columns, rows } object,
\* PAUSE, RESUME) gives back exactly the tag and the payload.
FrameRoundTrip ==
    /\ sendCall.op \in {"sendData", "sendBinary", "resize"} => RoundTrips
    /\ \A c \in {CommandPause, CommandResume} :
          decodedAs("sendData", textEncode(c)) = [command |-> c, data |-> <<>>]

\* an INPUT frame was sent whose text holds a character of three UTF-8 bytes
MultiByteInputSent ==
    /\ sendCall.op = "sendData"
    /\ sendCall.frames # <<>>
    /\ \E i \in DOMAIN sendCall.data : sendCall.data[i] = 8364

\* C14: a close with a code other than 1000 while reconnect is allowed starts the
\* token refresh and nothing else (no socket, no prompt, no tab close), and the
\* refresh is followed by a connect attempt.
AbnormalCloseReconnects ==
    /\ [][\A code \in CloseCodes :
             (onSocketClose(code) /\ socketListeners /\ code # 1000 /\ doReconnect)
             => /\ refreshing' /\ socket' = "closed"
                /\ keyPrompt' = keyPrompt /\ tabClosed' = tabClosed]_vars
    /\ (last = "close" /\ refreshing) ~> (last = "connect" /\ socket = "connecting")

\* the socket of an opened session has closed and the token refresh is running
RefreshAfterClose == last = "close" /\ refreshing /\ opened

\* C15: a close with code 1000 starts no token refresh and no connect: it closes
\* the tab when closeOnDisconnect is set and installs the Enter prompt otherwise.
NormalClosureNeverReconnects ==
    [][(onSocketClose(1000) /\ socketListeners)
          => /\ ~refreshing' /\ socket' = "closed"
             /\ IF closeOnDisconnect
                THEN tabClosed' /\ keyPrompt' = keyPrompt
                ELSE keyPrompt' /\ tabClosed' = tabClosed]_vars

\* a close with reconnect still allowed, hence with code 1000, showed the prompt
PromptAfterNormalClosure ==
    last = "close" /\ keyPrompt /\ doReconnect /\ ~refreshing /\ opened

\* C16: no registration is disposed twice, and right after a dispose() every
\* registration made so far has been disposed and the list is empty; a dispose()
\* that follows another without a registration in between disposes nothing.
DisposeReleasesOnce ==
    /\ \A i, j \in DOMAIN releases : i # j => releases[i] # releases[j]
    /\ last = "dispose" =>
          /\ disposables = <<>>
          /\ \A d \in 1..(nextDisposable - 1) : \E i \in DOMAIN releases : releases[i] = d

\* the close of a socket that never opened disposed its listeners, and the
\* unmount that followed called dispose() again
DisposedAgainAfterClose ==
    /\ last = "dispose" /\ socket = "closed"
    /\ ~opened /\ settleTimers = 0
    /\ releases = <<1>> /\ nextDisposable = 2

\* C17, as stated: once the component has disposed the client, the settle-delay
\* timer, the write-completion callbacks and the token-refresh continuation
\* register nothing, send nothing and open no socket.
NoCallbackAfterDispose ==
    [][(unmounted /\ last' \in {"settle", "completion", "connect"})
          => /\ sent' = <<>>
             /\ disposables' = disposables
             /\ socket' = socket]_vars

\* C18, as stated: a command is handed to socket.send only while the socket is
\* open.
CommandsOnlyOnOpenSocket ==
    \A i \in DOMAIN sent :
        sent[i].frame \in {"INPUT", "RESIZE", "PAUSE", "RESUME", "4", "sidebar"}
            => sent[i].state = "open"

\* C19: every step that opens a socket is the continuation of a token refresh
\* that was started for it and settles in that step.
ConnectFollowsItsRefresh ==
    [][(socket' = "connecting" /\ socket # "connecting")
          => (refreshing /\ ~refreshing')]_vars

\* a connect attempt made after an earlier connection was opened and disposed
ReconnectAttempt == last = "connect" /\ opened /\ releases # <<>>

\* C20, as stated: a SET_PREFERENCES frame { rendererType: 'webgl', enableSixel:
\* true } without query overrides, WebGL instantiable, leaves the WebGL backend
\* active, no Canvas backend and the image addon loaded.
PreferencesEnableWebglAndImage ==
    [][\A canvas \in FailureModes :
          (/\ urlQuery = <<>>
           /\ onSocketDataPreferences(
                 << <<"rendererType", "webgl">>, <<"enableSixel", "true">> >>,
                 "ok", canvas))
          => /\ webglAddon' = "loaded"
             /\ canvasAddon' = "unset"
             /\ "image" \in addons']_vars

\* the connection states, read from the client's fields
ConnectionStates ==
    {"Disconnected", "Opening", "Open", "Closing", "AwaitingManualReconnect", "Terminated"}
InConnectionState(state) ==
    CASE state = "Disconnected" ->
            socket \in {"none", "closed"} /\ ~keyPrompt /\ ~tabClosed
      [] state = "Opening" -> socket = "connecting"
      [] state = "Open" -> socket = "open"
      [] state = "Closing" -> socket = "closing"
      [] state = "AwaitingManualReconnect" -> keyPrompt
      [] state = "Terminated" -> tabClosed

\* C21: the client is in exactly one connection state, a live socket can close
\* with either code, the Enter prompt can always be answered, and the state
\* after a close or a connect request is again exactly one connection state.
ExactlyOneConnectionState ==
    /\ Cardinality({state \in ConnectionStates : InConnectionState(state)}) = 1
    /\ socket \in {"connecting", "open"} => \A code \in CloseCodes : ENABLED onSocketClose(code)
    /\ keyPrompt => ENABLED pressEnter
    /\ last = "close" => ~InConnectionState("Opening") /\ ~InConnectionState("Open")
    /\ last = "connect" => InConnectionState("Opening")

\* the prompt is shown after a close and a key other than Enter was pressed
StillAwaitingManualReconnect ==
    last = "key" /\ InConnectionState("AwaitingManualReconnect") /\ socket = "closed"

\* C30: while the prompt is shown Enter can be pressed; the press removes the key
\* handler and starts one token refresh, which leads to one connect attempt;
\* another key starts nothing, and no press is handled once the handler is gone.
PromptAlwaysRecoverable ==
    /\ [](keyPrompt => ENABLED pressEnter)
    /\ [][last' = "enter" => (keyPrompt /\ ~keyPrompt' /\ ~refreshing /\ refreshing'
                                 /\ socket' = socket)]_vars
    /\ [][last' = "key" => UNCHANGED <<refreshing, socket, keyPrompt, disposables>>]_vars
    /\ [][(socket' = "connecting" /\ socket # "connecting") => (refreshing /\ ~refreshing')]_vars
    /\ (last = "enter") ~> (last = "connect" /\ socket = "connecting")

\* Enter was pressed at the prompt and the token refresh is running
EnterPressedAtPrompt == last = "enter" /\ refreshing /\ ~keyPrompt /\ socket = "closed"

\* C22: the handshake is sent exactly once per connection, under any
\* interleaving of open, settle timer, close and reconnect: no socket accepts a
\* second handshake
HandshakeOncePerConnection == handshakes <= 1

\* C23: once closeOnDisconnect = true has been applied it stays applied, and a
\* later close event with a code other than 1000 that reaches onSocketClose
\* closes the tab and starts neither a token refresh nor the Enter prompt
CloseOnDisconnectClosesTab ==
    /\ [][closeOnDisconnect => closeOnDisconnect']_vars
    /\ [][\A code \in CloseCodes \ {1000} :
            (closeOnDisconnect /\ socketListeners /\ onSocketClose(code))
                => (tabClosed' /\ ~refreshing' /\ ~keyPrompt')]_vars

\* the tab was closed by a close event after closeOnDisconnect was applied
TabClosedOnDisconnect ==
    last = "close" /\ tabClosed /\ closeOnDisconnect /\ ~refreshing /\ ~keyPrompt

\* C24: once a non-empty titleFixed has been applied the window title stays
\* equal to it: neither a SET_WINDOW_TITLE frame nor a title change of the
\* emulator changes it
TitleStaysFixed == titleFixed # "" => documentTitle = titleFixed

\* what the handler of a key leaves behind when the key has been applied
applied(key, value) ==
    CASE key = "closeOnDisconnect" -> Truthy(value) => closeOnDisconnect
      [] key = "enableSixel" -> Truthy(value) => "image" \in addons
      [] key = "titleFixed" -> Truthy(value) => titleFixed = value
      [] OTHER -> TRUE

\* C25: every call of applyPreferences applies every key of the object it is
\* given, whatever the values of the other keys
EveryKeyApplied ==
    [][\A server \in TitlePreferences :
          onSocketDataPreferences(server, "ok", "ok") =>
              \A effective \in {EffectivePreferences(clientOptions, server, urlQuery)} :
                  \A i \in DOMAIN effective : applied(effective[i][1], effective[i][2])']_vars

\* C26: the query overrides hold only keys that exist in the defaults or in the
\* emulator options, each coerced by the type of the existing value (a boolean
\* from 'true' or '1', a number, an object from JSON, a string as it is); a
\* parameter whose key matches neither produces no override and changes no
\* emulator option
QueryOverridesKnownKeys ==
    [][\A server \in QueryServerPreferences, search \in Queries(MaxQuery) :
          (onSocketDataPreferencesQuery(server, search) /\ last' = "preferences"
              /\ ~parseOptsFromUrlQuery(search, clientOptions, terminalOptions).threw) =>
              \A known \in {Keys(clientOptions) \cup Keys(terminalOptions)} :
                  /\ Keys(urlQuery') \subseteq known
                  /\ \A k \in Keys(urlQuery') \cap known :
                        \E existing \in {IF Has(clientOptions, k) THEN Get(clientOptions, k)
                                          ELSE Get(terminalOptions, k)} :
                            /\ typeOf(existing) = "boolean" =>
                                   Get(urlQuery', k) \in {"true", "false"}
                            /\ typeOf(existing) = "number" =>
                                   typeOf(Get(urlQuery', k)) = "number"
                  /\ \A k \in Keys(search) \ known : ~Has(termOptions', k)]_vars

\* C27: 'canvas' disposes an active WebGL backend and, when the Canvas backend
\* cannot be instantiated, ends with neither backend; 'dom' ends, from every
\* state, with both backends disposed and unset
CanvasAndDomDisposeWebgl ==
    last = "setRendererType" =>
        /\ (rendererCall.value = "canvas" /\ rendererCall.before.canvasAddon = "unset") =>
               /\ webglAddon = "unset"
               /\ rendererCall.canvas # "ok" => canvasAddon = "unset"
        /\ rendererCall.value = "dom" => (canvasAddon = "unset" /\ webglAddon = "unset")

\* C28: a renderer that cannot be instantiated, in its constructor or while it
\* is loaded, is caught inside the renderer selection: setRendererType never
\* fails toward its caller
RendererFailureIsCaught == last = "setRendererType" => ~rendererCall.threw

\* C29: the frame of sendData with a string and of sendCommand with data is the
\* tag byte followed by the complete UTF-8 encoding of the payload, nothing cut
\* off and nothing added; binary input is copied as it is
FrameIsTagAndUtf8 ==
    \A i \in DOMAIN sendCall.frames :
        /\ sendCall.op \in {"sendData", "sendCommand"} =>
               sendCall.frames[i] = sendCall.command \o textEncode(sendCall.data)
        /\ sendCall.op = "sendBinary" =>
               sendCall.frames[i] = sendCall.command \o sendCall.data

\* C31: after every writeData call the flow-window counter satisfies
\* 0 <= written <= limit, and a throttled delivery leaves it at 0
WrittenWithinLimit ==
    /\ written >= 0 /\ written <= limit
    /\ (last = "output" /\ writeBuffer[Len(writeBuffer)].cb) => written = 0

\* a delivery that found the window full was throttled and reset the counter
WrittenResetByThrottle ==
    /\ last = "output" /\ writeBuffer[Len(writeBuffer)].cb
    /\ written = 0 /\ pending > 0

\* C32: at most one steady-state listener set is registered at any time, under
\* every interleaving of open, settle timer, close and reconnect, so that one
\* resize event of the emulator sends at most one RESIZE frame
AtMostOneListenerSet ==
    /\ listenerSets <= 1
    /\ last = "resize" => Len(sent) <= 1

\* C33: on every connection no tagged frame (INPUT, RESIZE, PAUSE, RESUME) is
\* sent on the socket before that socket's handshake, the PAUSE and RESUME of
\* completion callbacks of writes of an earlier connection included
NoFrameBeforeHandshake ==
    \A i \in DOMAIN sent :
        (sent[i].frame \in {"INPUT", "RESIZE", "PAUSE", "RESUME"} /\ sent[i].state = "open")
            => handshakes >= 1

\* C34: after any sequence of setRendererType calls, whatever fails to be
\* instantiated, at most one of the Canvas and WebGL backends is retained: the
\* renderer fields record exactly one of DOM, Canvas and WebGL
AtMostOneBackend ==
    /\ canvasAddon = "unset" \/ webglAddon = "unset"
    /\ Cardinality({state \in RendererTypes :
            state = Active([canvasAddon |-> canvasAddon, webglAddon |-> webglAddon])}) = 1

\* the WebGL backend was requested while the Canvas backend was loaded, and
\* has replaced it
CanvasReplacedByWebgl ==
    /\ last = "setRendererType"
    /\ rendererCall.value = "webgl"
    /\ rendererCall.before.canvasAddon = "loaded"
    /\ webglAddon = "loaded" /\ canvasAddon = "unset"

\* C35: the recorded renderer state matches the live backend, after a WebGL
\* context loss too: a WebGL backend that is recorded has not been disposed, and
\* 'webgl' requested after a context loss instantiates a fresh backend
RecordedBackendIsLive ==
    /\ webglAddon # "lost"
    /\ (/\ last = "setRendererType"
        /\ rendererCall.value = "webgl"
        /\ rendererCall.webgl = "ok"
        /\ rendererCall.before.webglAddon = "lost")
       => (webglAddon = "loaded" /\ rendererCall.ops # <<>>)

\* C36, as stated: with lowWater >= 1 and every issued completion callback
\* firing in the end, a PAUSE frame that was sent is followed by a RESUME frame,
\* unless the socket does not stay open
PauseLeadsToResume ==
    (PauseSent /\ socket = "open" /\ lowWater >= 1) ~> (ResumeSent \/ socket # "open")

\* the remote sends only finitely many further OUTPUT frames
RemoteStopsSending == nextId # 0

\* C36, amended: the same when moreover the remote stops sending after finitely
\* many frames, as PAUSE asks it to
PauseLeadsToResumeOnceRemoteStops ==
    (PauseSent /\ socket = "open" /\ lowWater >= 1 /\ RemoteStopsSending)
        ~> (ResumeSent \/ socket # "open")

\* PAUSE went out on the open socket while lowWater is at least 1, to a remote
\* that stops
PausedWithLowWater ==
    /\ PauseSent /\ socket = "open" /\ lowWater >= 1 /\ pending > lowWater
    /\ RemoteStopsSending

====
